---- MODULE Spec2Model ----
(***************************************************************************)
(* Request-dispatch core of the NewsBreak Business API client              *)
(* (src/client.py): RateLimiter.acquire, NewsBreakClient._request and the  *)
(* response classification performed inside _request.                      *)
(*                                                                         *)
(* Concurrency is that of asyncio: a coroutine runs atomically from one    *)
(* suspension point to the next.  The suspension points of _request are    *)
(* the wait for the limiter's lock, the sleep inside acquire(), the        *)
(* transport call and the backoff sleep; one action models the code        *)
(* between two of them.  Time is counted in ticks, TicksPerSecond ticks to *)
(* the second; a sleep never ends before its deadline and may end late.    *)
(***************************************************************************)
EXTENDS Integers, Sequences, FiniteSets, TLC

\* ------------------------------------------------------------------ bounds
NumTasks == 3
NumRequests == 2
TicksPerSecond == 2
MaxSeconds == 4
MaxRetryCount == 3
SendMaxSeconds == 8
SendMaxRetryCount == 4
MaxTokens == 2

Tasks == 1..NumTasks
Requests == 1..NumRequests
MaxTime == TicksPerSecond * MaxSeconds
SendMaxTime == TicksPerSecond * SendMaxSeconds
RetryCounts == 0..MaxRetryCount
SendRetryCounts == (0 - 1)..SendMaxRetryCount
CallsPerSecondValues == {c \in 1..TicksPerSecond : TicksPerSecond % c = 0}
ErrMsgs == {"timeout", "reset"}

\* ------------------------------------------------------- program constants
TextLimit == 200
DefaultRetryCount == 3
TransportErrorCode == 0 - 1
NoneStr == "None"
NoTask == 0
NoInstant == 0 - 1

\* ---------------------------------------------------------- response bodies
\* A response body is non-JSON text, or JSON: an object over the six keys the
\* classification reads, an array, a number or null.  A key that is absent
\* from an object (not in has) carries a fixed filler value.
Keys == {"code", "message", "errMsg", "error", "timestamp", "url"}

Body(kind, has, code, message, errMsg, error, timestamp, url, text, items) ==
  [kind |-> kind, has |-> has, code |-> code, message |-> message,
   errMsg |-> errMsg, error |-> error, timestamp |-> timestamp, url |-> url,
   text |-> text, items |-> items]

NoBody == Body("none", {}, 0, "", "", "", "", "", "", <<>>)
TextBody(s) == Body("text", {}, 0, "", "", "", "", "", s, <<>>)
ArrayBody(items) == Body("array", {}, 0, "", "", "", "", "", "", items)
NumberBody(n) == Body("number", {}, n, "", "", "", "", "", "", <<>>)
NullBody == Body("null", {}, 0, "", "", "", "", "", "", <<>>)

KeyValues(k) ==
  CASE k = "message" -> {"", "bad request"}
    [] k = "errMsg" -> {"", "quota exceeded"}
    [] k = "error" -> {"Not Found"}
    [] k = "timestamp" -> {"2024-01-01T00:00:00Z"}
    [] k = "url" -> {"/x"}

ObjectBodies ==
  UNION { { Body("object", has, IF "code" \in has THEN c ELSE 0,
                 m, em, e, ts, u, "", <<>>) :
              c \in {0, 5},
              m \in (IF "message" \in has THEN KeyValues("message") ELSE {""}),
              em \in (IF "errMsg" \in has THEN KeyValues("errMsg") ELSE {""}),
              e \in (IF "error" \in has THEN KeyValues("error") ELSE {""}),
              ts \in (IF "timestamp" \in has THEN KeyValues("timestamp") ELSE {""}),
              u \in (IF "url" \in has THEN KeyValues("url") ELSE {""}) } :
          has \in SUBSET Keys }

Bodies ==
  ObjectBodies \cup {TextBody("<html>Bad Gateway</html>"), ArrayBody(<<>>),
                     ArrayBody(<<"code">>), NumberBody(7), NullBody}

Statuses == {200, 400, 500}

AllResponses == [status : Statuses, body : Bodies]

\* the responses a single call is run over: every status, every kind of body,
\* and of the objects those over the key sets below
SendKeySets ==
  {{}, {"code"}, {"code", "errMsg"}, {"message"}, {"timestamp", "url"}}
SendBodies == {b \in Bodies : b.kind = "object" => b.has \in SendKeySets}
SendResponses == [status : Statuses, body : SendBodies]

\* ---------------------------------------------------------------- outcomes
\* What a call of _request ends with: the returned data, a NewsBreakAPIError
\* (code, message, response) or another exception that escapes.
Outcome(kind, code, message, response, data) ==
  [kind |-> kind, code |-> code, message |-> message,
   response |-> response, data |-> data]

NoOutcome == Outcome("none", 0, "", NoBody, NoBody)
Returned(data) == Outcome("Success", 0, "", NoBody, data)
NewsBreakAPIError(code, message, response) ==
  Outcome("NewsBreakAPIError", code, message, response, NoBody)
Escapes(exc) == Outcome(exc, 0, "", NoBody, NoBody)

\* --------------------------------------------------------- python helpers
\* dict.get(k): the value, or None when the key is absent
Get(data, k) == IF k \in data.has THEN data[k] ELSE NoneStr
\* dict.get(k, default)
GetDefault(data, k, default) == IF k \in data.has THEN data[k] ELSE default
\* truth value of a str-or-None
Truthy(v) == v # "" /\ v # NoneStr
\* a or b
Or(a, b) == IF Truthy(a) THEN a ELSE b
\* s[:n]
Prefix(s, n) == IF Len(s) <= n THEN s ELSE SubSeq(s, 1, n)
\* "code" in data, for a list
InList(x, items) == \E i \in 1..Len(items) : items[i] = x

\* ----------------------------------------------------------- classification
\* client.py:136-151, the branch for status >= 400
ClassifyHttpError(status, body) ==
  IF body.kind = "text"
  THEN NewsBreakAPIError(status,
         "HTTP " \o ToString(status) \o ": " \o Prefix(body.text, TextLimit),
         NoBody)
  ELSE IF body.kind = "object"
  THEN NewsBreakAPIError(status,
         Or(Or(Or(Get(body, "message"), Get(body, "errMsg")),
               Get(body, "error")),
            "HTTP " \o ToString(status)),
         body)
  ELSE Escapes("AttributeError")

\* the timestamp/url test of line 168 made before the code test of line 156
ClassifyObjectHeuristicFirst(status, data) ==
  IF "timestamp" \in data.has /\ "url" \in data.has
  THEN NewsBreakAPIError(status,
         Or(Or(Get(data, "message"), Get(data, "error")),
            "API returned error response")
           \o " (timestamp: " \o Get(data, "timestamp") \o ")",
         data)
  ELSE IF "code" \in data.has
  THEN IF data.code # 0
       THEN NewsBreakAPIError(data.code,
              GetDefault(data, "errMsg", "Unknown error"), data)
       ELSE Returned(data)
  ELSE Returned(data)

\* the test of line 168 with one of timestamp and url being enough
ClassifyObjectEitherKey(status, data) ==
  IF "code" \in data.has
  THEN IF data.code # 0
       THEN NewsBreakAPIError(data.code,
              GetDefault(data, "errMsg", "Unknown error"), data)
       ELSE Returned(data)
  ELSE IF ("timestamp" \in data.has \/ "url" \in data.has)
            /\ "code" \notin data.has
  THEN NewsBreakAPIError(status,
         Or(Or(Get(data, "message"), Get(data, "error")),
            "API returned error response")
           \o " (timestamp: " \o Get(data, "timestamp") \o ")",
         data)
  ELSE Returned(data)

\* client.py:156-178, a parsed JSON object with status < 400
ClassifyObject(status, data) ==
  IF "code" \in data.has
  THEN IF data.code # 0
       THEN NewsBreakAPIError(data.code,
              GetDefault(data, "errMsg", "Unknown error"), data)
       ELSE Returned(data)
  ELSE IF "timestamp" \in data.has /\ "url" \in data.has
            /\ "code" \notin data.has
  THEN NewsBreakAPIError(status,
         Or(Or(Get(data, "message"), Get(data, "error")),
            "API returned error response")
           \o " (timestamp: " \o Get(data, "timestamp") \o ")",
         data)
  ELSE Returned(data)

\* client.py:135-178, everything _request does with an obtained response
Classify(status, body) ==
  IF status >= 400 THEN ClassifyHttpError(status, body)
  ELSE IF body.kind = "text" THEN Escapes("ValueError")
  ELSE IF body.kind \in {"number", "null"} THEN Escapes("TypeError")
  ELSE IF body.kind = "array"
  THEN IF InList("code", body.items) THEN Escapes("TypeError")
       ELSE Returned(body)
  ELSE ClassifyObject(status, body)

\* ------------------------------------------------------ public operations
\* the six operations of NewsBreakClient that call _request
Operations ==
  {"get_ad_accounts", "get_campaigns", "get_events", "run_synchronous_report",
   "get_ad_sets", "get_ads"}
NoOp == "none"

\* An Optional[List[str]] argument: None, or a list of tokens.
NoList == [given |-> FALSE, tokens |-> <<>>]
List(tokens) == [given |-> TRUE, tokens |-> tokens]

\* the truth value of an Optional[List[str]] (client.py:335, 344)
NonEmpty(l) == l.given /\ l.tokens # <<>>

\* The arguments of an operation that its request is built of: the two token
\* lists, the account id and the first date of run_synchronous_report.
Args(dimensions, metrics, ad_account_id, date_from) ==
  [dimensions |-> dimensions, metrics |-> metrics,
   ad_account_id |-> ad_account_id, date_from |-> date_from]
NoArgs == Args(NoList, NoList, "", "")

Lowers == "abcdefghijklmnopqrstuvwxyz"
Uppers == "ABCDEFGHIJKLMNOPQRSTUVWXYZ"
Digits == "0123456789"

\* the character c is one of those of the string chars
CharIn(c, chars) == \E i \in 1..Len(chars) : SubSeq(chars, i, i) = c

\* the character of the string to that stands where c stands in from
Translate(c, from, to) ==
  IF CharIn(c, from)
  THEN LET i == CHOOSE i \in 1..Len(from) : SubSeq(from, i, i) = c
       IN  SubSeq(to, i, i)
  ELSE c

\* str.lower() and str.upper(), for ASCII text
RECURSIVE Lower(_)
Lower(str) ==
  IF str = "" THEN ""
  ELSE Translate(SubSeq(str, 1, 1), Uppers, Lowers)
         \o Lower(SubSeq(str, 2, Len(str)))

RECURSIVE Upper(_)
Upper(str) ==
  IF str = "" THEN ""
  ELSE Translate(SubSeq(str, 1, 1), Lowers, Uppers)
         \o Upper(SubSeq(str, 2, Len(str)))

\* int(ad_account_id) at client.py:360 succeeds: decimal digits only
Numeric(str) ==
  str # "" /\ \A i \in 1..Len(str) : CharIn(SubSeq(str, i, i), Digits)

\* datetime.strptime(str, "%Y-%m-%d") at server.py:283 succeeds, for the
\* dates written with four, two and two digits
ValidDate(str) ==
  /\ Len(str) = 10
  /\ \A i \in 1..10 :
       IF i \in {5, 8} THEN SubSeq(str, i, i) = "-"
       ELSE CharIn(SubSeq(str, i, i), Digits)

\* client.py:300-313
dimension_map ==
  ("date" :> "DATE") @@ ("hour" :> "HOUR") @@ ("org" :> "ORG")
  @@ ("organization" :> "ORG") @@ ("ad_account" :> "AD_ACCOUNT")
  @@ ("ad_account_id" :> "AD_ACCOUNT") @@ ("campaign" :> "CAMPAIGN")
  @@ ("campaign_id" :> "CAMPAIGN") @@ ("ad_set" :> "AD_SET")
  @@ ("ad_set_id" :> "AD_SET") @@ ("ad" :> "AD") @@ ("ad_id" :> "AD")

\* client.py:315-331
metric_map ==
  ("cost" :> "COST") @@ ("spend" :> "COST") @@ ("impression" :> "IMPRESSION")
  @@ ("impressions" :> "IMPRESSION") @@ ("click" :> "CLICK")
  @@ ("clicks" :> "CLICK") @@ ("conversion" :> "CONVERSION")
  @@ ("conversions" :> "CONVERSION") @@ ("value" :> "VALUE")
  @@ ("cpm" :> "CPM") @@ ("cpc" :> "CPC") @@ ("cpa" :> "CPA")
  @@ ("ctr" :> "CTR") @@ ("cvr" :> "CVR") @@ ("vpa" :> "VPA")

DefaultDimensions == <<"DATE", "CAMPAIGN">>
DefaultMetrics == <<"COST", "IMPRESSION", "CLICK", "CTR", "CPC">>

\* table.get(k, default)
MapGet(table, k, default) == IF k \in DOMAIN table THEN table[k] ELSE default

\* the lookup of client.py:337 and 346 with the token as it was written
NormalizeAsWritten(table, tokens) ==
  [i \in 1..Len(tokens) |-> MapGet(table, tokens[i], Upper(tokens[i]))]

\* the loops of client.py:336-337 and 345-346
Normalize(table, tokens) ==
  [i \in 1..Len(tokens) |->
     MapGet(table, Lower(tokens[i]), Upper(tokens[i]))]

\* the default taken for an absent list only, not for an empty one
ApiDimensionsAbsentOnly(dimensions) ==
  IF dimensions.given THEN Normalize(dimension_map, dimensions.tokens)
  ELSE DefaultDimensions

\* client.py:334-340
ApiDimensions(dimensions) ==
  IF NonEmpty(dimensions) THEN Normalize(dimension_map, dimensions.tokens)
  ELSE DefaultDimensions

\* client.py:343-349
ApiMetrics(metrics) ==
  IF NonEmpty(metrics) THEN Normalize(metric_map, metrics.tokens)
  ELSE DefaultMetrics

\* the two lists of the request body of client.py:352-362
RequestBody(dimensions, metrics) ==
  [dimensions |-> dimensions, metrics |-> metrics]
NoRequestBody == RequestBody(<<>>, <<>>)

\* The "data" part of a payload, which _request does not read: absent, as the
\* response model of the operation wants it, or not so.
Shapes == {"absent", "conforming", "malformed"}
NoShape == "none"

\* Model(**data) at client.py:205, 241, 268, 378, 419, 464: "ok", or the
\* exception raised.  The six fields of BaseResponse are optional.
Validate(data, sh) ==
  IF data.kind # "object" THEN "TypeError"
  ELSE IF sh = "malformed" THEN "ValidationError"
  ELSE "ok"

ParseErrorCode == 0 - 1

\* what an operation does with what its _request ended with, out: an
\* exception goes on to the caller; the returned data is validated, and the
\* failure of that is wrapped by run_synchronous_report only (client.py:377-392)
OperationResult(o, out, sh) ==
  IF out.kind # "Success" THEN out
  ELSE IF Validate(out.data, sh) = "ok" THEN Returned(out.data)
  ELSE IF o = "run_synchronous_report"
  THEN NewsBreakAPIError(ParseErrorCode,
         "Failed to parse report response: " \o Validate(out.data, sh)
           \o ". Raw response logged to stderr.",
         out.data)
  ELSE Escapes(Validate(out.data, sh))

\* ------------------------------------------------------ tools of the server
Tools ==
  {"get_ad_accounts", "get_campaigns", "get_tracking_events",
   "run_performance_report", "get_campaign_summary"}
NoTool == "none"

\* the operation of the client each tool calls (server.py:82, 136, 201, 289,
\* 364)
OperationOf(tool) ==
  CASE tool = "get_ad_accounts" -> "get_ad_accounts"
    [] tool = "get_campaigns" -> "get_campaigns"
    [] tool = "get_tracking_events" -> "get_events"
    [] tool = "run_performance_report" -> "run_synchronous_report"
    [] tool = "get_campaign_summary" -> "get_campaigns"

ToolOut(tool, kind, message) ==
  [tool |-> tool, kind |-> kind, message |-> message]
NoToolOut == ToolOut(NoTool, "none", "")

\* the except clauses every tool ends with (server.py:107-110): the exception
\* of type kind and text message leaves the tool as a ToolError
ToolCaught(tool, kind, message) ==
  IF kind = "NewsBreakAPIError"
  THEN ToolOut(tool, "ToolError", "NewsBreak API error: " \o message)
  ELSE ToolOut(tool, "ToolError", "Unexpected error: " \o message)

\* a response without code passes for one with code 0
CodeIsZeroOrNone(data) == "code" \notin data.has \/ data.code = 0

\* not (response.code != 0), server.py:84: the code of the response model is
\* that of the payload, None when the payload has none
CodeIsZero(data) == "code" \in data.has /\ data.code = 0

\* what a tool does with what the operation ended with, res (server.py:82-110)
ToolResult(tool, res) ==
  IF res.kind # "Success" THEN ToolCaught(tool, res.kind, res.message)
  ELSE IF ~CodeIsZero(res.data)
  THEN ToolCaught(tool, "ToolError", "API error: " \o Get(res.data, "errMsg"))
  ELSE ToolOut(tool, "returned", "")

\* a RateLimiter as __init__ leaves it (client.py:27-28), and after
Limiter(lc, locked) == [last_call |-> lc, locked |-> locked]
NewLimiter == Limiter(0, FALSE)

\* ------------------------------------------------------------------- state
VARIABLES
  now,              \* asyncio.get_event_loop().time(), in ticks
  client_open,      \* NewsBreakClient._client is set (__aenter__ has run)
  calls_per_second, \* RateLimiter.calls_per_second
  min_interval,     \* RateLimiter.min_interval, in ticks
  last_call,        \* RateLimiter.last_call, in ticks
  lock,             \* RateLimiter._lock: the task holding it, or NoTask
  waiters,          \* RateLimiter._lock: the tasks waiting for it, in order
  pc,               \* where each call of _request stands
  retry_count,      \* the retry_count argument of each call
  attempt,          \* the loop variable of each call
  wake,             \* the deadline of the sleep each call is in
  outcome,          \* what each call ended with
  response,         \* the last response each call obtained
  acquires,         \* history: completed acquire() calls of each call
  last_send,        \* history: the instant of the last transport call
  transports,       \* history: the transport calls each call has made
  sleeps,           \* history: the backoff delays each call asked for, in s
  errs,             \* history: the transport failures each call met
  arrivals,         \* history: the calls in the order they invoked acquire()
  constructed,      \* RateLimiter.__init__ returned (it did not raise)
  op,               \* the public operation that made each call of _request
  args,             \* the arguments of that operation its request is built of
  request_body,     \* the json body the operation passed to _request
  shape,            \* the "data" part of the payload the operation was given
  result,           \* what each public operation ended with
  tool_out,         \* what each tool invocation of the server ended with
  own_limiter       \* the RateLimiter of the client a tool invocation built

vars == <<now, client_open, calls_per_second, min_interval, last_call, lock,
          waiters, pc, retry_count, attempt, wake, outcome, response,
          acquires, last_send, transports, sleeps, errs, arrivals,
          constructed, op, args, request_body, shape, result, tool_out,
          own_limiter>>

\* the state of the public operations and of the tools of the server
public == <<op, args, request_body, shape, result, tool_out, own_limiter>>

limiter == <<calls_per_second, min_interval, constructed>>

NoResponse == [status |-> 0, body |-> NoBody]

\* RateLimiter.__init__ (client.py:26): min_interval = 1.0 / calls_per_second
\* in ticks; 1.0 / 0 raises ZeroDivisionError and leaves no min_interval
MinIntervalOf(cps) ==
  IF cps > 0 THEN TicksPerSecond \div cps
  ELSE IF cps < 0 THEN 0 - (TicksPerSecond \div (0 - cps))
  ELSE 0

\* RateLimiter.__init__ (client.py:24-28) returns unless the division raises
Constructs(cps) == cps # 0

\* the state after NewsBreakClient(access_token, rate_limit = one of rates)
InitWith(rates) ==
  /\ now = 0
  /\ client_open = FALSE
  /\ calls_per_second \in rates
  /\ constructed = Constructs(calls_per_second)
  /\ min_interval = MinIntervalOf(calls_per_second)
  /\ last_call = 0
  /\ lock = NoTask
  /\ waiters = <<>>
  /\ pc = [t \in Tasks |-> "idle"]
  /\ retry_count = [t \in Tasks |-> 0]
  /\ attempt = [t \in Tasks |-> 0]
  /\ wake = [t \in Tasks |-> 0]
  /\ outcome = [t \in Tasks |-> NoOutcome]
  /\ response = [t \in Tasks |-> NoResponse]
  /\ acquires = [t \in Tasks |-> 0]
  /\ last_send = NoInstant
  /\ transports = [t \in Tasks |-> 0]
  /\ sleeps = [t \in Tasks |-> <<>>]
  /\ errs = [t \in Tasks |-> <<>>]
  /\ arrivals = <<>>
  /\ op = [t \in Tasks |-> NoOp]
  /\ args = [t \in Tasks |-> NoArgs]
  /\ request_body = [t \in Tasks |-> NoRequestBody]
  /\ shape = [t \in Tasks |-> NoShape]
  /\ result = [t \in Tasks |-> NoOutcome]
  /\ tool_out = [t \in Tasks |-> NoToolOut]
  /\ own_limiter = [t \in Tasks |-> NewLimiter]

Init == InitWith(CallsPerSecondValues)

\* ----------------------------------------------------- code of the handlers
\* the comparison of line 35 turned round
MustWaitReversed(time_since_last, interval) == time_since_last > interval

\* client.py:35  if time_since_last < self.min_interval
MustWait(time_since_last, interval) == time_since_last < interval

\* client.py:36  the delay passed to asyncio.sleep, in ticks
WaitDelay(time_since_last, interval) == interval - time_since_last

\* a linear backoff in the place of the exponential one
BackoffLinear(n) == n + 1

\* client.py:188  the delay passed to asyncio.sleep, in seconds
BackoffDelay(n) == 2 ^ n

\* the test of line 181 off by one
IsLastAttemptLate(n, rc) == n = rc

\* client.py:181  if attempt == retry_count - 1
IsLastAttempt(n, rc) == n = rc - 1

\* "for attempt in range(retry_count + 1)" in the place of line 126
InRangeInclusive(n, rc) == 0 <= n /\ n <= rc

\* client.py:126  for attempt in range(retry_count): is there an iteration n
InRange(n, rc) == 0 <= n /\ n < rc

\* "except Exception" in the place of line 180
CaughtAny(exc) == TRUE

\* line 180 catching NewsBreakAPIError as well
CaughtApiError(exc) == exc \in {"HTTPError", "NewsBreakAPIError"}

\* client.py:180  except httpx.HTTPError: the exceptions the handler catches
Caught(exc) == exc = "HTTPError"

\* client.py:182-185
HttpError(msg) ==
  NewsBreakAPIError(TransportErrorCode, "HTTP error: " \o msg, NoBody)

\* client.py:190
MaxRetries ==
  NewsBreakAPIError(TransportErrorCode, "Max retries exceeded", NoBody)

\* asyncio.sleep(delay) never returns before now + delay
Slept(t) == now >= wake[t]

\* client.py:126-133: the loop is entered with attempt n; either there is no
\* such iteration and line 190 raises, or the transport call starts.
LoopTop(t, n, rc) ==
  IF InRange(n, rc)
  THEN /\ pc' = [pc EXCEPT ![t] = "request"]
       /\ attempt' = [attempt EXCEPT ![t] = n]
       /\ last_send' = now
       /\ transports' = [transports EXCEPT ![t] = @ + 1]
       /\ outcome' = outcome
  ELSE /\ pc' = [pc EXCEPT ![t] = "done"]
       /\ outcome' = [outcome EXCEPT ![t] = MaxRetries]
       /\ UNCHANGED <<attempt, last_send, transports>>

\* the lock is taken at once by a newcomer although calls wait for it
LockFreeBarging(l, ws) == l = NoTask

\* the limiter without its lock: a newcomer never waits for it
LockFreeAlways(l, ws) == TRUE

\* asyncio.Lock.acquire() at client.py:32 returns at once only when the lock
\* is not held and no call waits for it; otherwise the caller queues
LockFree(l, ws) == l = NoTask /\ ws = <<>>

\* the exit of "async with" forgets to release
LockKept(t) == t

\* the holder of the lock after the exit of "async with" (client.py:32-37)
LockAfterExit(t) == NoTask

\* client.py:37 and the exit of "async with": last_call is written, the lock
\* is released, acquire() returns to line 124 and _request goes on to its loop
Grant(t, rc) ==
  /\ last_call' = now
  /\ lock' = LockAfterExit(t)
  /\ acquires' = [acquires EXCEPT ![t] = @ + 1]
  /\ LoopTop(t, 0, rc)
  /\ wake' = [wake EXCEPT ![t] = 0]

\* client.py:32-37: t has just been given the lock
Locked(t, rc) ==
  IF MustWait(now - last_call, min_interval)
  THEN /\ lock' = t
       /\ pc' = [pc EXCEPT ![t] = "rate_sleep"]
       /\ wake' = [wake EXCEPT ![t] = now + WaitDelay(now - last_call, min_interval)]
       /\ UNCHANGED <<last_call, acquires, attempt, last_send, transports,
                       outcome>>
  ELSE Grant(t, rc)

\* ----------------------------------------------------------------- actions
\* the clock advances, as long as a call of the callers S can still be made
\* or is under way
Tick(limit, S) ==
  /\ now < limit
  /\ \E t \in S : pc[t] # "done"
  /\ now' = now + 1
  /\ UNCHANGED <<client_open, limiter, public, arrivals, last_call, lock, waiters, pc,
                 retry_count, attempt, wake, outcome, response, acquires,
                 last_send, transports, sleeps, errs>>

\* NewsBreakClient.__aenter__ (client.py:80-90)
AEnter ==
  /\ constructed
  /\ ~client_open
  /\ client_open' = TRUE
  /\ UNCHANGED <<now, limiter, public, arrivals, last_call, lock, waiters, pc, retry_count,
                 attempt, wake, outcome, response, acquires, last_send,
                 transports, sleeps, errs>>

\* _request is called (client.py:121-124) and runs up to its first suspension
Request(t, rc) ==
  /\ constructed
  /\ pc[t] = "idle"
  /\ retry_count' = [retry_count EXCEPT ![t] = rc]
  /\ IF ~client_open
     THEN /\ pc' = [pc EXCEPT ![t] = "done"]
          /\ outcome' = [outcome EXCEPT ![t] = Escapes("RuntimeError")]
          /\ UNCHANGED <<last_call, lock, waiters, attempt, wake, acquires,
                         last_send, transports, arrivals>>
     ELSE /\ arrivals' = Append(arrivals, t)
          /\ IF LockFree(lock, waiters)
             THEN /\ Locked(t, rc)
                  /\ UNCHANGED waiters
             ELSE /\ waiters' = Append(waiters, t)
                  /\ pc' = [pc EXCEPT ![t] = "lock_wait"]
                  /\ UNCHANGED <<last_call, lock, attempt, wake, outcome,
                                 acquires, last_send, transports>>
  /\ UNCHANGED <<now, client_open, limiter, response, sleeps, errs>>

\* _request is called by itself, by no public operation
Call(t, rc) ==
  /\ Request(t, rc)
  /\ UNCHANGED public

\* the lock is free and t is the first waiter (client.py:32)
LockAcquired(t) ==
  /\ pc[t] = "lock_wait"
  /\ lock = NoTask
  /\ waiters # <<>>
  /\ Head(waiters) = t
  /\ waiters' = Tail(waiters)
  /\ Locked(t, retry_count[t])
  /\ UNCHANGED <<now, client_open, limiter, public, arrivals, retry_count, response, sleeps,
                 errs>>

\* the sleep inside acquire() is over (client.py:36-37)
RateWake(t) ==
  /\ pc[t] = "rate_sleep"
  /\ Slept(t)
  /\ Grant(t, retry_count[t])
  /\ UNCHANGED <<now, client_open, limiter, public, arrivals, waiters, retry_count, response,
                 sleeps, errs>>

\* client.py:180-188: the handler of an exception the except clause catches
Handler(t, msg) ==
  /\ errs' = [errs EXCEPT ![t] = Append(@, msg)]
  /\ IF IsLastAttempt(attempt[t], retry_count[t])
     THEN /\ outcome' = [outcome EXCEPT ![t] = HttpError(msg)]
          /\ pc' = [pc EXCEPT ![t] = "done"]
          /\ UNCHANGED <<wake, sleeps>>
     ELSE /\ pc' = [pc EXCEPT ![t] = "backoff"]
          /\ wake' = [wake EXCEPT ![t] =
                        now + BackoffDelay(attempt[t]) * TicksPerSecond]
          /\ sleeps' = [sleeps EXCEPT ![t] = Append(@, BackoffDelay(attempt[t]))]
          /\ UNCHANGED outcome

\* an exception raised inside the try block (client.py:127-188) is handled
\* when the except clause catches it and leaves _request otherwise
Raised(t, exc, out) ==
  IF Caught(exc)
  THEN Handler(t, out.message)
  ELSE /\ outcome' = [outcome EXCEPT ![t] = out]
       /\ pc' = [pc EXCEPT ![t] = "done"]
       /\ UNCHANGED <<wake, sleeps, errs>>

\* the transport call returns a response (client.py:128-178)
Respond(t, resp) ==
  /\ pc[t] = "request"
  /\ response' = [response EXCEPT ![t] = resp]
  /\ LET out == Classify(resp.status, resp.body)
     IN  IF out.kind = "Success"
         THEN /\ outcome' = [outcome EXCEPT ![t] = out]
              /\ pc' = [pc EXCEPT ![t] = "done"]
              /\ UNCHANGED <<wake, sleeps, errs>>
         ELSE Raised(t, out.kind, out)
  /\ UNCHANGED <<now, client_open, limiter, public, arrivals, last_call, lock, waiters,
                 retry_count, attempt, acquires, last_send, transports>>

\* the transport call raises httpx.HTTPError (client.py:128-133, 180-188)
TransportFail(t, msg) ==
  /\ pc[t] = "request"
  /\ Raised(t, "HTTPError", Outcome("HTTPError", 0, msg, NoBody, NoBody))
  /\ UNCHANGED <<now, client_open, limiter, public, arrivals, last_call, lock, waiters,
                 retry_count, attempt, response, acquires, last_send,
                 transports>>

\* the backoff sleep is over: next iteration of the loop (client.py:188, 126)
BackoffWake(t) ==
  /\ pc[t] = "backoff"
  /\ Slept(t)
  /\ LoopTop(t, attempt[t] + 1, retry_count[t])
  /\ wake' = [wake EXCEPT ![t] = 0]
  /\ UNCHANGED <<now, client_open, limiter, public, arrivals, last_call, lock, waiters,
                 retry_count, response, acquires, sleeps, errs>>

\* the variables of the client and of its calls of _request
core == <<now, client_open, limiter, last_call, lock, waiters, pc,
          retry_count, attempt, wake, outcome, response, acquires, last_send,
          transports, sleeps, errs, arrivals>>

\* the part of an operation before its _request: run_synchronous_report
\* builds its request body (client.py:300-362), where int(ad_account_id)
\* may raise; the other operations pass query parameters only
Prepared(o, a) == o = "run_synchronous_report" => Numeric(a.ad_account_id)

BodyOf(o, a) ==
  IF o = "run_synchronous_report"
  THEN RequestBody(ApiDimensions(a.dimensions), ApiMetrics(a.metrics))
  ELSE NoRequestBody

\* a public operation of the client is called (client.py:193-204, 208-240,
\* 244-267, 271-374, 395-418, 422-463) and runs up to the first suspension
\* of its _request
Invoke(t, o, a) ==
  /\ op[t] = NoOp
  /\ pc[t] = "idle"
  /\ op' = [op EXCEPT ![t] = o]
  /\ args' = [args EXCEPT ![t] = a]
  /\ IF Prepared(o, a)
     THEN /\ request_body' = [request_body EXCEPT ![t] = BodyOf(o, a)]
          /\ Request(t, DefaultRetryCount)
          /\ UNCHANGED result
     ELSE /\ result' = [result EXCEPT ![t] = Escapes("ValueError")]
          /\ UNCHANGED <<core, request_body>>
  /\ UNCHANGED <<shape, tool_out, own_limiter>>

\* the shapes the data part of what _request ended with can have
ShapesOf(out) == IF out.kind = "Success" THEN Shapes ELSE {NoShape}

\* the _request of an operation is over: the operation validates the data and
\* returns the response model, or raises (client.py:204-205, 374-392)
OpReturn(t, sh) ==
  /\ op[t] # NoOp
  /\ pc[t] = "done"
  /\ result[t] = NoOutcome
  /\ sh \in ShapesOf(outcome[t])
  /\ shape' = [shape EXCEPT ![t] = sh]
  /\ result' = [result EXCEPT ![t] = OperationResult(op[t], outcome[t], sh)]
  /\ UNCHANGED <<core, op, args, request_body, tool_out, own_limiter>>

\* acquire() on the limiter of the client this invocation has built: the
\* lock of it is free, no other task has the client (client.py:30-37)
OwnGrant(t, rc) ==
  /\ own_limiter' = [own_limiter EXCEPT ![t] = Limiter(now, FALSE)]
  /\ acquires' = [acquires EXCEPT ![t] = @ + 1]
  /\ LoopTop(t, 0, rc)
  /\ wake' = [wake EXCEPT ![t] = 0]

OwnLocked(t, rc) ==
  IF MustWait(now - NewLimiter.last_call, min_interval)
  THEN /\ own_limiter' = [own_limiter EXCEPT ![t] =
                            Limiter(NewLimiter.last_call, TRUE)]
       /\ pc' = [pc EXCEPT ![t] = "own_rate_sleep"]
       /\ wake' = [wake EXCEPT ![t] =
                     now + WaitDelay(now - NewLimiter.last_call, min_interval)]
       /\ UNCHANGED <<acquires, attempt, last_send, transports, outcome>>
  ELSE OwnGrant(t, rc)

\* a tool of the server is invoked (server.py:80-82, 134-142, 199-204,
\* 268-296, 361-368): the dates of the report are checked, get_client()
\* builds a client with a RateLimiter of its own (server.py:48-58,
\* client.py:76), the client is entered and the operation called, which runs
\* up to the first suspension of its _request
ToolCall(t, tool, a, token) ==
  /\ tool_out[t] = NoToolOut
  /\ op[t] = NoOp
  /\ pc[t] = "idle"
  /\ args' = [args EXCEPT ![t] = a]
  /\ IF tool = "run_performance_report" /\ ~ValidDate(a.date_from)
     THEN /\ tool_out' = [tool_out EXCEPT ![t] =
                ToolCaught(tool, "ToolError",
                           "Invalid date format. Use YYYY-MM-DD (e.g., 2024-01-01)")]
          /\ UNCHANGED <<core, op, request_body, result, own_limiter>>
     ELSE IF ~token
     THEN /\ tool_out' = [tool_out EXCEPT ![t] =
                ToolCaught(tool, "ToolError",
                           "NewsBreak access token not configured. "
                             \o "Please provide via --token argument or "
                             \o "NEWSBREAK_ACCESS_TOKEN environment variable.")]
          /\ UNCHANGED <<core, op, request_body, result, own_limiter>>
     ELSE /\ tool_out' = [tool_out EXCEPT ![t] = ToolOut(tool, "running", "")]
          /\ op' = [op EXCEPT ![t] = OperationOf(tool)]
          /\ IF Prepared(OperationOf(tool), a)
             THEN /\ request_body' =
                       [request_body EXCEPT ![t] = BodyOf(OperationOf(tool), a)]
                  /\ retry_count' =
                       [retry_count EXCEPT ![t] = DefaultRetryCount]
                  /\ OwnLocked(t, DefaultRetryCount)
                  /\ UNCHANGED <<now, client_open, limiter, last_call, lock,
                                 waiters, response, sleeps, errs, arrivals,
                                 result>>
             ELSE /\ result' = [result EXCEPT ![t] = Escapes("ValueError")]
                  /\ UNCHANGED <<core, request_body, own_limiter>>
  /\ UNCHANGED shape

\* the sleep inside acquire() on the invocation's own limiter is over
OwnRateWake(t) ==
  /\ pc[t] = "own_rate_sleep"
  /\ Slept(t)
  /\ OwnGrant(t, retry_count[t])
  /\ UNCHANGED <<now, client_open, limiter, last_call, lock, waiters,
                 retry_count, response, sleeps, errs, arrivals, op, args,
                 request_body, shape, result, tool_out>>

\* the operation a tool called is over: the tool returns its result or
\* raises ToolError (server.py:82-110)
ToolReturn(t) ==
  /\ tool_out[t].kind = "running"
  /\ result[t] # NoOutcome
  /\ tool_out' = [tool_out EXCEPT ![t] = ToolResult(tool_out[t].tool, result[t])]
  /\ UNCHANGED <<core, op, args, request_body, shape, result, own_limiter>>

\* --------------------------------------------------------- specifications
\* the responses the concurrent specification draws from
Responses ==
  { [status |-> 500, body |-> TextBody("<html>Bad Gateway</html>")] }

\* NumRequests concurrent calls of _request on one client
Next ==
  \/ Tick(MaxTime, Requests)
  \/ AEnter
  \/ \E t \in Requests, rc \in RetryCounts : Call(t, rc)
  \/ \E t \in Requests : LockAcquired(t)
  \/ \E t \in Requests : RateWake(t)
  \/ \E t \in Requests, resp \in Responses : Respond(t, resp)
  \/ \E t \in Requests : TransportFail(t, "timeout")
  \/ \E t \in Requests : BackoffWake(t)

Spec == Init /\ [][Next]_vars

\* one call of _request, over every kind of response
NextSend ==
  \/ Tick(SendMaxTime, {1})
  \/ AEnter
  \/ \E rc \in SendRetryCounts : Call(1, rc)
  \/ RateWake(1)
  \/ \E resp \in SendResponses : Respond(1, resp)
  \/ \E msg \in ErrMsgs : TransportFail(1, msg)
  \/ BackoffWake(1)

SpecSend == Init /\ [][NextSend]_vars

\* NumTasks concurrent callers of acquire().  acquire() is called at line 124
\* only; a call of _request with retry_count = 0 does nothing but that call
\* (the loop is empty and line 190 raises).
NextLimiter ==
  \/ Tick(MaxTime, Tasks)
  \/ AEnter
  \/ \E t \in Tasks : Call(t, 0)
  \/ \E t \in Tasks : LockAcquired(t)
  \/ \E t \in Tasks : RateWake(t)

SpecLimiter == Init /\ [][NextLimiter]_vars

\* one call of _request with the default retry_count, as every public
\* operation makes it, whose transport call obtains a response: every status
\* with every body.  The clock runs as far as the longest wait in acquire().
NextClassify ==
  \/ Tick(TicksPerSecond, {1})
  \/ AEnter
  \/ Call(1, DefaultRetryCount)
  \/ RateWake(1)
  \/ \E resp \in AllResponses : Respond(1, resp)

SpecClassify == Init /\ [][NextClassify]_vars

\* the rate limiter under a fair scheduler: the clock goes on while a call
\* sleeps inside acquire(), and the event loop resumes a call whose sleep is
\* over or which is first in line for the free lock
Elapse ==
  /\ \E t \in Tasks : pc[t] = "rate_sleep" /\ ~Slept(t)
  /\ now' = now + 1
  /\ UNCHANGED <<client_open, limiter, public, arrivals, last_call, lock, waiters, pc,
                 retry_count, attempt, wake, outcome, response, acquires,
                 last_send, transports, sleeps, errs>>

NextLimiterFair ==
  \/ Tick(MaxTime, Tasks)
  \/ Elapse
  \/ AEnter
  \/ \E t \in Tasks : Call(t, 0)
  \/ \E t \in Tasks : LockAcquired(t)
  \/ \E t \in Tasks : RateWake(t)

FairLimiter ==
  /\ WF_vars(Elapse)
  /\ \A t \in Tasks : WF_vars(LockAcquired(t))
  /\ \A t \in Tasks : WF_vars(RateWake(t))

SpecLimiterFair == Init /\ [][NextLimiterFair]_vars /\ FairLimiter

\* the rate limiter constructed with any calls_per_second, zero and negative
\* ones included
AnyCallsPerSecond ==
  {c \in (0 - TicksPerSecond)..TicksPerSecond :
     c = 0 \/ TicksPerSecond % (IF c < 0 THEN 0 - c ELSE c) = 0}

InitConstruct == InitWith(AnyCallsPerSecond)

SpecConstruct == InitConstruct /\ [][NextLimiter]_vars


\* one call of run_synchronous_report, up to the first suspension of its
\* _request, over its lists of dimensions and metrics: absent, empty, and of
\* up to MaxTokens tokens, known to the alias tables and unknown, in lower,
\* upper and mixed case
DimensionTokens == {"campaign_id", "Campaign_ID", "date", "region"}
MetricTokens == {"spend", "COST", "impressions", "unknown_metric"}
TokenLists(T) == UNION {[1..n -> T] : n \in 0..MaxTokens}
OptionalLists(T) == {NoList} \cup {List(l) : l \in TokenLists(T)}
ReportArgs ==
  {Args(d, m, "123", "2024-01-01") :
     d \in OptionalLists(DimensionTokens), m \in OptionalLists(MetricTokens)}

NextReport ==
  \/ AEnter
  \/ \E a \in ReportArgs : Invoke(1, "run_synchronous_report", a)

SpecReport == Init /\ [][NextReport]_vars

\* the arguments the operations and the tools are called with where the
\* token lists do not matter: an account id that is a number or not, a first
\* date that is well written or not
PlainArgs(o, ids, dates) ==
  IF o = "run_synchronous_report"
  THEN {Args(NoList, NoList, id, d) : id \in ids, d \in dates}
  ELSE {NoArgs}

\* one call of a public operation of the client, over every operation, every
\* kind of response, transport failures, and every shape of the data
NextOperation ==
  \/ Tick(MaxTime, {1})
  \/ AEnter
  \/ \E o \in Operations :
       \E a \in PlainArgs(o, {"123", "abc"}, {"2024-01-01"}) : Invoke(1, o, a)
  \/ RateWake(1)
  \/ \E resp \in SendResponses : Respond(1, resp)
  \/ TransportFail(1, "timeout")
  \/ BackoffWake(1)
  \/ \E sh \in Shapes \cup {NoShape} : OpReturn(1, sh)

SpecOperation == Init /\ [][NextOperation]_vars

\* one invocation of a tool of the server whose transport call obtains a
\* response: every tool, every status with every body, every shape of data
NextTool ==
  \/ Tick(TicksPerSecond, {1})
  \/ \E tool \in Tools, token \in BOOLEAN :
       \E a \in PlainArgs(OperationOf(tool), {"123", "abc"},
                          {"2024-01-01", "01/01/2024"}) :
         ToolCall(1, tool, a, token)
  \/ OwnRateWake(1)
  \/ \E resp \in AllResponses : Respond(1, resp)
  \/ \E sh \in Shapes \cup {NoShape} : OpReturn(1, sh)
  \/ ToolReturn(1)

SpecTool == Init /\ [][NextTool]_vars

\* concurrent invocations of tools of the server
ServerTools == {"get_ad_accounts", "get_campaigns"}
ServerResponses ==
  { [status |-> 200,
     body |-> Body("object", {"code"}, 0, "", "", "", "", "", "", <<>>)] }

NextServer ==
  \/ Tick(MaxTime, Requests)
  \/ \E t \in Requests, tool \in ServerTools : ToolCall(t, tool, NoArgs, TRUE)
  \/ \E t \in Requests : OwnRateWake(t)
  \/ \E t \in Requests, resp \in ServerResponses : Respond(t, resp)
  \/ \E t \in Requests : OpReturn(t, "conforming")
  \/ \E t \in Requests : ToolReturn(t)

SpecServer == Init /\ [][NextServer]_vars

\* two concurrent calls of _request on one client, each with the default
\* retry_count, whose transport calls fail or obtain a response
BothCalls == {1, 2}

NextBackoff ==
  \/ Tick(MaxTime, BothCalls)
  \/ AEnter
  \/ \E t \in BothCalls : Call(t, DefaultRetryCount)
  \/ \E t \in BothCalls : LockAcquired(t)
  \/ \E t \in BothCalls : RateWake(t)
  \/ \E t \in BothCalls, resp \in Responses : Respond(t, resp)
  \/ \E t \in BothCalls : TransportFail(t, "timeout")
  \/ \E t \in BothCalls : BackoffWake(t)

SpecBackoff == Init /\ [][NextBackoff]_vars

\* one call of _request under a fair scheduler: the clock goes on while the
\* call sleeps, the event loop resumes it when its sleep is over, and every
\* transport call returns a response or fails (the timeout of the client)
BackoffElapse ==
  /\ \E t \in Tasks : pc[t] = "backoff" /\ ~Slept(t)
  /\ now' = now + 1
  /\ UNCHANGED <<client_open, limiter, public, arrivals, last_call, lock,
                 waiters, pc, retry_count, attempt, wake, outcome, response,
                 acquires, last_send, transports, sleeps, errs>>

TransportEnds(t) ==
  \/ \E resp \in SendResponses : Respond(t, resp)
  \/ \E msg \in ErrMsgs : TransportFail(t, msg)

NextRequestFair ==
  \/ AEnter
  \/ \E rc \in SendRetryCounts : Call(1, rc)
  \/ Elapse
  \/ BackoffElapse
  \/ RateWake(1)
  \/ TransportEnds(1)
  \/ BackoffWake(1)

FairRequest ==
  /\ WF_vars(Elapse)
  /\ WF_vars(BackoffElapse)
  /\ WF_vars(RateWake(1))
  /\ WF_vars(TransportEnds(1))
  /\ WF_vars(BackoffWake(1))

SpecRequestFair == Init /\ [][NextRequestFair]_vars /\ FairRequest

\* ------------------------------------------------------------- properties
Done(t) == pc[t] = "done"

\* the call got past line 121-122 (the client was open)
Started(t) == pc[t] # "idle" /\ outcome[t].kind # "RuntimeError"

\* the call is over and every one of its transport calls failed
AllFailed(t) ==
  /\ Done(t)
  /\ Started(t)
  /\ retry_count[t] >= 1
  /\ response[t] = NoResponse

StartsWith(s, prefix) ==
  Len(s) >= Len(prefix) /\ SubSeq(s, 1, Len(prefix)) = prefix

EndsWith(s, suffix) ==
  Len(s) >= Len(suffix) /\ SubSeq(s, Len(s) - Len(suffix) + 1, Len(s)) = suffix

\* C1: whenever acquire() returns, at instant t, the last_call recorded before
\* is at most t - min_interval: two consecutive grants of one RateLimiter are
\* at least min_interval apart, whatever the number of concurrent callers.
C1_GrantSpacing ==
  [][\A t \in Tasks :
       acquires'[t] > acquires[t] =>
         /\ last_call' = now'
         /\ last_call + min_interval <= now']_vars

\* every caller has been granted and the last grant is the least time after
\* the first possible one
C1_Witness ==
  /\ \A t \in Tasks : acquires[t] = 1
  /\ last_call = NumTasks * min_interval

\* C2: every transport attempt of a _request, the first one and every retry,
\* is preceded by its own acquire(): a call never has made more transport
\* calls than it has completed acquisitions.
C2_AcquirePerAttempt ==
  \A t \in Tasks : transports[t] <= acquires[t]

\* C3: any two outgoing transport requests of one client, first attempts or
\* retries, of the same or of different calls, start at least min_interval
\* apart.
C3_SendSpacing ==
  [][((\E t \in Tasks : transports'[t] > transports[t])
        /\ last_send # NoInstant) =>
       last_send' - last_send >= min_interval]_vars

\* C4: once a transport call has obtained a response, of any status, the call
\* is over: no further transport call and no backoff sleep is made for it, and
\* a transport call beyond the first one only ever follows a transport failure.
C4_NoRetryAfterResponse ==
  /\ [](\A t \in Tasks :
          /\ response[t] # NoResponse =>
               /\ Done(t)
               /\ Len(sleeps[t]) = Len(errs[t])
          /\ transports[t] <= Len(errs[t]) + 1)
  /\ [][\A t \in Tasks :
          response[t] # NoResponse =>
            /\ transports'[t] = transports[t]
            /\ sleeps'[t] = sleeps[t]
            /\ outcome'[t] = outcome[t]]_vars

\* a 500 response, classified as an API error, came after one transport failure
C4_Witness ==
  /\ Done(1)
  /\ response[1].status = 500
  /\ outcome[1].kind = "NewsBreakAPIError"
  /\ outcome[1].code = 500
  /\ Len(errs[1]) = 1

C6_MaxRetriesExceeded ==
  \A t \in Tasks :
    AllFailed(t) =>
      /\ StartsWith(outcome[t].message, MaxRetries.message)
      /\ EndsWith(outcome[t].message, errs[t][Len(errs[t])])

\* C7: a call with retry_count <= 0 is rejected before the first acquire():
\* it never waits for the limiter, completes no acquisition and makes no
\* transport call.
C7_RejectedBeforeAcquire ==
  \A t \in Tasks :
    (Started(t) /\ retry_count[t] <= 0) =>
      /\ Done(t)
      /\ acquires[t] = 0
      /\ transports[t] = 0

\* C8: the backoff sleep after the (i+1)-th failed attempt is asked to last
\* 2^i seconds, its deadline is exactly that far away, and a call sleeps only
\* when an attempt remains.
C8_BackoffDelays ==
  /\ [](\A t \in Tasks :
          /\ \A i \in 1..Len(sleeps[t]) : sleeps[t][i] = 2 ^ (i - 1)
          /\ Len(sleeps[t]) <= Len(errs[t])
          /\ pc[t] = "backoff" =>
               /\ attempt[t] + 1 < retry_count[t]
               /\ Len(sleeps[t]) = attempt[t] + 1
               /\ Len(errs[t]) = attempt[t] + 1)
  /\ [][\A t \in Tasks :
          /\ (pc[t] = "request" /\ pc'[t] = "backoff") =>
               wake'[t] = now + (2 ^ attempt[t]) * TicksPerSecond
          /\ (pc[t] = "backoff" /\ pc'[t] # "backoff") => now >= wake[t]]_vars

\* the third backoff sleep has been asked for
C8_Witness == Len(sleeps[1]) = 3 /\ pc[1] = "backoff"

\* C9: when the first k < retry_count transport calls fail and the next one
\* obtains a response, _request has made k + 1 transport calls and ends with
\* what the classification makes of that response.
C9_OutcomeOfResponse ==
  \A t \in Tasks :
    (Done(t) /\ response[t] # NoResponse) =>
      /\ Len(errs[t]) < retry_count[t]
      /\ transports[t] = Len(errs[t]) + 1
      /\ outcome[t] = Classify(response[t].status, response[t].body)

\* two failures, then a response that is returned as data
C9_Witness ==
  /\ Done(1)
  /\ Len(errs[1]) = 2
  /\ outcome[1].kind = "Success"
  /\ outcome[1].data = response[1].body

\* C10: every call of _request that got to the limiter ends with returned data
\* or with a NewsBreakAPIError, never with another exception.
C10_TypedOutcome ==
  \A t \in Tasks :
    (Done(t) /\ Started(t)) =>
      outcome[t].kind \in {"Success", "NewsBreakAPIError"}

\* the call is over and its transport call obtained a response
Answered(t) == Done(t) /\ response[t] # NoResponse

\* the body of the response parsed as JSON
ParsedJson(body) == body.kind \in {"object", "array", "number", "null"}

\* C11: for every response with status >= 400 the outcome is a
\* NewsBreakAPIError whose code is the HTTP status, whatever the body holds.
C11_StatusOverridesBody ==
  \A t \in Tasks :
    (Answered(t) /\ response[t].status >= 400) =>
      /\ outcome[t].kind = "NewsBreakAPIError"
      /\ outcome[t].code = response[t].status

\* the first of message, errMsg and error that is present in the body, and
\* "HTTP {status}" when none of the three is
FirstPresent(status, body) ==
  IF "message" \in body.has THEN body.message
  ELSE IF "errMsg" \in body.has THEN body.errMsg
  ELSE IF "error" \in body.has THEN body.error
  ELSE "HTTP " \o ToString(status)

\* C12: for a response with status >= 400 whose body parses as JSON, the
\* NewsBreakAPIError carries as message the first field present among message,
\* errMsg and error, "HTTP {status}" only when none is present, and the parsed
\* body as response.
C12_FirstPresentMessage ==
  \A t \in Tasks :
    (Answered(t) /\ response[t].status >= 400
       /\ ParsedJson(response[t].body)) =>
      /\ outcome[t].kind = "NewsBreakAPIError"
      /\ outcome[t].message = FirstPresent(response[t].status, response[t].body)
      /\ outcome[t].response = response[t].body

\* C13: a response with status < 400 whose body does not parse as JSON ends
\* the call, after that one transport call, with the NewsBreakAPIError of
\* code = status and message "invalid response body".
C13_InvalidBody ==
  \A t \in Tasks :
    (Answered(t) /\ response[t].status < 400
       /\ response[t].body.kind = "text") =>
      /\ outcome[t].kind = "NewsBreakAPIError"
      /\ outcome[t].code = response[t].status
      /\ outcome[t].message = "invalid response body"
      /\ transports[t] = 1

\* C14: for a response with status < 400 whose parsed body has a code field:
\* code # 0 gives the NewsBreakAPIError with the body's code, with the body's
\* errMsg as message, "Unknown error" when errMsg is absent or empty, and with
\* the body as response; code = 0 returns the whole body unchanged.
C14_CodeField ==
  \A t \in Tasks :
    (Answered(t) /\ response[t].status < 400
       /\ response[t].body.kind = "object"
       /\ "code" \in response[t].body.has) =>
      LET body == response[t].body
      IN  IF body.code # 0
          THEN /\ outcome[t].kind = "NewsBreakAPIError"
               /\ outcome[t].code = body.code
               /\ outcome[t].message =
                    (IF "errMsg" \in body.has /\ body.errMsg # ""
                     THEN body.errMsg ELSE "Unknown error")
               /\ outcome[t].response = body
          ELSE /\ outcome[t].kind = "Success"
               /\ outcome[t].data = body

BothMarks(body) == "timestamp" \in body.has /\ "url" \in body.has

\* C15: for a response with status < 400 whose parsed body has code together
\* with both timestamp and url, code alone decides: code = 0 returns the body,
\* code # 0 raises the NewsBreakAPIError with the body's code; the
\* timestamp/url rule is not applied.
C15_CodeBeforeHeuristic ==
  \A t \in Tasks :
    (Answered(t) /\ response[t].status < 400
       /\ response[t].body.kind = "object"
       /\ "code" \in response[t].body.has /\ BothMarks(response[t].body)) =>
      LET body == response[t].body
      IN  IF body.code = 0
          THEN /\ outcome[t].kind = "Success"
               /\ outcome[t].data = body
          ELSE /\ outcome[t].kind = "NewsBreakAPIError"
               /\ outcome[t].code = body.code
               /\ ~EndsWith(outcome[t].message, ")")

C15_Witness ==
  \E t \in Tasks :
    /\ Answered(t)
    /\ response[t].status = 200
    /\ response[t].body.has = {"code", "timestamp", "url"}
    /\ response[t].body.code = 5
    /\ outcome[t].kind = "NewsBreakAPIError"
    /\ outcome[t].code = 5

HeuristicMessage(body) ==
  (IF "message" \in body.has /\ body.message # "" THEN body.message
   ELSE IF "error" \in body.has /\ body.error # "" THEN body.error
   ELSE "API returned error response")
    \o " (timestamp: " \o body.timestamp \o ")"

\* C16: for a response with status < 400 whose parsed body has both timestamp
\* and url and no code, the outcome is the NewsBreakAPIError with code = status,
\* the body as response, and the message (message or error or "API returned
\* error response") followed by " (timestamp: <timestamp>)"; a body with only
\* one of timestamp and url (and no code) is returned as data.
C16_TimestampUrlHeuristic ==
  \A t \in Tasks :
    (Answered(t) /\ response[t].status < 400
       /\ response[t].body.kind = "object"
       /\ "code" \notin response[t].body.has) =>
      LET body == response[t].body
      IN  IF BothMarks(body)
          THEN /\ outcome[t].kind = "NewsBreakAPIError"
               /\ outcome[t].code = response[t].status
               /\ outcome[t].response = body
               /\ outcome[t].message = HeuristicMessage(body)
          ELSE /\ outcome[t].kind = "Success"
               /\ outcome[t].data = body

C16_Witness ==
  \E t \in Tasks :
    /\ Answered(t)
    /\ response[t].status = 200
    /\ response[t].body.has = {"timestamp", "url"}
    /\ outcome[t].kind = "NewsBreakAPIError"
    /\ outcome[t].code = 200
    /\ outcome[t].message =
         "API returned error response (timestamp: 2024-01-01T00:00:00Z)"

\* C17: for a response with status < 400 whose parsed body has no code field
\* and not both timestamp and url, the call returns the parsed body unchanged.
C17_OptimisticSuccess ==
  \A t \in Tasks :
    (Answered(t) /\ response[t].status < 400
       /\ ParsedJson(response[t].body)
       /\ "code" \notin response[t].body.has
       /\ ~BothMarks(response[t].body)) =>
      /\ outcome[t].kind = "Success"
      /\ outcome[t].data = response[t].body

InAcquire(t) == pc[t] \in {"lock_wait", "rate_sleep"}

Before(a, b) ==
  \E i, j \in 1..Len(arrivals) : i < j /\ arrivals[i] = a /\ arrivals[j] = b

\* C18: grants happen in the order in which acquire() was invoked: when caller
\* a invoked acquire() before caller b and b's acquire() has returned, a's has
\* returned too, also when b arrived while a slept inside acquire().
C18_GrantsInArrivalOrder ==
  \A a, b \in Tasks :
    (Before(a, b) /\ acquires[b] > 0) => acquires[a] > 0

C18_Witness ==
  /\ Len(arrivals) = NumTasks
  /\ acquires[arrivals[1]] = 1
  /\ pc[arrivals[2]] = "rate_sleep"
  /\ waiters = <<arrivals[3]>>
  /\ arrivals[1] > arrivals[2]

\* C19: acquire() only delays: every call that is inside acquire() eventually
\* returns from it, and whenever no call is inside acquire() the lock is free
\* and nobody waits for it.
C19_AcquireReturns ==
  /\ \A t \in Tasks : InAcquire(t) ~> (acquires[t] = 1)
  /\ []((\A t \in Tasks : ~InAcquire(t)) => (lock = NoTask /\ waiters = <<>>))

C19_Witness ==
  /\ \A t \in Tasks : acquires[t] = 1 /\ outcome[t] = MaxRetries
  /\ lock = NoTask
  /\ waiters = <<>>
  /\ last_call > MaxTime

\* C20: no acquire() returns on a RateLimiter whose calls_per_second is zero
\* or negative: such a limiter is rejected at construction, and none with a
\* min_interval <= 0 exists.
C20_NonPositiveRejected ==
  \A t \in Tasks :
    acquires[t] > 0 => (calls_per_second > 0 /\ min_interval > 0)

\* C21: concurrent invocations of tools of the server are throttled against
\* one limiter clock: the first transport call of an invocation starts at
\* least min_interval after the last transport call any invocation started.
C21_ToolsShareLimiter ==
  [][\A t \in Tasks :
       (tool_out[t].kind = "running" /\ transports[t] = 0
          /\ transports'[t] = 1 /\ last_send # NoInstant) =>
         now' - last_send >= min_interval]_vars

\* the operation has ended with an error
Failed(t) == result[t].kind \notin {"none", "Success"}

\* which of the kinds of error the failure of an operation is, from what
\* happened: no response was obtained and transport calls failed; a response
\* was classified as an error; the returned data did not validate
KindOfError(t) ==
  IF outcome[t].kind = "Success" THEN "SchemaError"
  ELSE IF response[t] # NoResponse THEN "ApiError"
  ELSE IF Len(errs[t]) > 0 THEN "TransportError"
  ELSE "ConfigurationError"

\* C22: the kind of an error can be told from the type and the code of the
\* error an operation surfaces: an error of the type and code with which a
\* TransportError surfaces (C5: NewsBreakAPIError, code -1) is a
\* TransportError.
C22_KindsDistinguishable ==
  \A t \in Tasks :
    (Failed(t) /\ result[t].kind = "NewsBreakAPIError"
       /\ result[t].code = TransportErrorCode) =>
      KindOfError(t) = "TransportError"

\* C23: when the data an operation got from _request does not conform to the
\* response model of the operation, the operation ends with an error that
\* has the data attached.
C23_SchemaErrorWithPayload ==
  \A t \in Tasks :
    (op[t] # NoOp /\ result[t] # NoOutcome /\ outcome[t].kind = "Success"
       /\ (outcome[t].data.kind # "object" \/ shape[t] = "malformed")) =>
      /\ Failed(t)
      /\ result[t].response = outcome[t].data

\* the request body of run_synchronous_report has been built
Built(t) == op[t] = "run_synchronous_report" /\ result[t].kind # "ValueError"

\* the lower-case and the upper-case form of every token of the inputs
Tokens == DimensionTokens \cup MetricTokens
LowerCase == [token \in Tokens |-> Lower(token)]
UpperCase == [token \in Tokens |-> Upper(token)]

\* what a token is to become under an alias table
Canonical(table, token) ==
  IF LowerCase[token] \in DOMAIN table THEN table[LowerCase[token]]
  ELSE UpperCase[token]

\* the list that tokens is to become
Normalized(table, tokens, list) ==
  /\ Len(list) = Len(tokens)
  /\ \A i \in 1..Len(tokens) :
       /\ list[i] = Canonical(table, tokens[i])
       /\ \A other \in Tokens :
            LowerCase[other] = LowerCase[tokens[i]] =>
              list[i] = Canonical(table, other)
       /\ LowerCase[tokens[i]] \in {"spend", "cost"} => list[i] = "COST"

\* C24: a non-empty list of dimensions or metrics becomes a list of the same
\* length and order, each token replaced by the entry of the alias table for
\* its lower-case form, or by its upper-case form when there is none; the
\* result is the same for tokens that differ in letter case only, and spend
\* and cost both become COST.
C24_Normalize ==
  \A t \in Tasks :
    Built(t) =>
      /\ args[t].dimensions.tokens # <<>> =>
           Normalized(dimension_map, args[t].dimensions.tokens,
                      request_body[t].dimensions)
      /\ args[t].metrics.tokens # <<>> =>
           Normalized(metric_map, args[t].metrics.tokens,
                      request_body[t].metrics)

C24_Witness ==
  /\ Built(1)
  /\ args[1].dimensions.tokens = <<"Campaign_ID", "region">>
  /\ request_body[1].dimensions = <<"CAMPAIGN", "REGION">>
  /\ args[1].metrics.tokens = <<"spend", "impressions">>
  /\ request_body[1].metrics = <<"COST", "IMPRESSION">>

\* C25: an empty or absent list of dimensions becomes DATE, CAMPAIGN and an
\* empty or absent list of metrics COST, IMPRESSION, CLICK, CTR, CPC, each
\* whatever the other list is; a non-empty list gets no default token added.
C25_Defaults ==
  \A t \in Tasks :
    Built(t) =>
      /\ IF args[t].dimensions.tokens = <<>>
         THEN request_body[t].dimensions = <<"DATE", "CAMPAIGN">>
         ELSE Len(request_body[t].dimensions)
                = Len(args[t].dimensions.tokens)
      /\ IF args[t].metrics.tokens = <<>>
         THEN request_body[t].metrics
                = <<"COST", "IMPRESSION", "CLICK", "CTR", "CPC">>
         ELSE Len(request_body[t].metrics) = Len(args[t].metrics.tokens)

C25_Witness ==
  /\ Built(1)
  /\ args[1].dimensions = List(<<>>)
  /\ request_body[1].dimensions = <<"DATE", "CAMPAIGN">>
  /\ args[1].metrics.tokens = <<"unknown_metric">>
  /\ request_body[1].metrics = <<"UNKNOWN_METRIC">>

\* the caller is inside the section of acquire() that "async with" guards,
\* suspended in its sleep
InSection(t) == pc[t] = "rate_sleep"

\* acquire() returns to t in this step
Granted(t) == acquires'[t] = acquires[t] + 1

\* C26: the read of last_call, the comparison, the wait and the write of
\* last_call form one critical section: at most one caller is inside it, also
\* while that caller sleeps, and it holds the lock; last_call is written only
\* by the caller that is granted, when no other caller is inside the section
\* and at least min_interval after the value it replaces, and never decreases.
C26_CriticalSection ==
  /\ [](\A a, b \in Tasks :
          /\ InSection(a) => lock = a
          /\ (InSection(a) /\ InSection(b)) => a = b)
  /\ [][/\ last_call' >= last_call
        /\ last_call' # last_call =>
             \E t \in Tasks :
               /\ Granted(t)
               /\ lock \in {NoTask, t}
               /\ \A u \in Tasks \ {t} : ~InSection(u) /\ ~Granted(u)
        /\ \A t \in Tasks :
             Granted(t) =>
               /\ last_call' = now
               /\ now - last_call >= min_interval]_vars

C26_Witness ==
  /\ acquires[1] = 1
  /\ last_call > 0
  /\ lock = 2
  /\ InSection(2)
  /\ wake[2] = last_call + min_interval
  /\ now < wake[2]
  /\ pc[3] = "lock_wait"

\* C27: a call that is suspended in a transport call or in a backoff sleep
\* neither holds the lock of the limiter nor waits for it; the lock is held
\* only by a call that sleeps inside acquire(), for min_interval at most, so
\* another call is granted its slot and makes its transport call while one is
\* in backoff.
C27_NoLockWhileSuspended ==
  \A t \in Tasks :
    /\ pc[t] \in {"request", "backoff"} =>
         /\ lock # t
         /\ \A i \in 1..Len(waiters) : waiters[i] # t
    /\ lock = t =>
         /\ InSection(t)
         /\ wake[t] <= now + min_interval

C27_Witness ==
  /\ arrivals = <<1, 2>>
  /\ pc[1] = "backoff"
  /\ now < wake[1]
  /\ pc[2] = "request"
  /\ transports[2] = 1
  /\ last_send > wake[1] - sleeps[1][Len(sleeps[1])] * TicksPerSecond

\* the transport calls or sleeps that a retry_count pays for
Budget(n) == IF n > 0 THEN n ELSE 0

Finished(t) == tool_out[t].kind \in {"returned", "ToolError"}

\* C29: a tool returns a result only when the response of the client has a
\* code that is exactly 0; a payload accepted as Success that has no code
\* makes the tool raise ToolError.
C29_ReturnsOnlyOnCodeZero ==
  \A t \in Tasks :
    /\ tool_out[t].kind = "returned" =>
         /\ result[t].kind = "Success"
         /\ "code" \in result[t].data.has
         /\ result[t].data.code = 0
    /\ (Finished(t) /\ result[t].kind = "Success"
          /\ "code" \notin result[t].data.has) =>
         tool_out[t].kind = "ToolError"

C29_Witness ==
  /\ tool_out[1].kind = "ToolError"
  /\ tool_out[1].tool = "get_campaigns"
  /\ result[1].kind = "Success"
  /\ "code" \notin result[1].data.has
  /\ StartsWith(tool_out[1].message, "Unexpected error: API error: ")

====
